---- MODULE Spec2Model ----
(***************************************************************************)
(* Field-level permissions of ralph (src/src/ralph/lib/permissions/        *)
(* models.py): the metaclass PermissionByFieldBase, which appends two      *)
(* permissions per eligible field to a model's _meta.permissions, and the  *)
(* mixin PermByFieldMixin, whose has_access_to_field / allowed_fields ask  *)
(* the user object (django auth) whether a permission is held.             *)
(*                                                                         *)
(* One behaviour is about one model class.  Its description (the fields,   *)
(* the Permissions.blacklist, possibly missing) is drawn in Init and never *)
(* changes; the permission list, the grants held by the identity store and *)
(* the record of the last query are the mutable state.                     *)
(*                                                                         *)
(* Spec is the life of a class as django runs it: the class statement runs *)
(* the metaclass once, then grants change and queries are answered in any  *)
(* order.  SpecReg runs the registration loop again on the same class      *)
(* (up to MaxRegistrations times), between queries, over a wider set of    *)
(* class descriptions and with an identity store that holds no grant.      *)
(***************************************************************************)
EXTENDS Naturals, Sequences, FiniteSets

VARIABLES
    fields,        \* new_class._meta.fields: sequence of [name, verbose_name, primary_key]
    Permissions,   \* the class attribute Permissions: [configured, blacklist]
    permissions,   \* new_class._meta.permissions: sequence of <<codename, description>>
    declared,      \* "no" | "ok" | "raised": outcome of the class statement
    error,         \* the exception the class statement raised ("" when none)
    nreg,          \* how many times the registration loop has completed
    grants,        \* identity store: set of <<user, qualified permission name>>
    lastCall       \* the last has_access_to_field / allowed_fields call and its outcome

vars == <<fields, Permissions, permissions, declared, error, nreg, grants, lastCall>>

----------------------------------------------------------------------------
(* Bounds of the model. *)

MaxFields == 3
MaxGrants == 2
MaxRegistrations == 2

(* Inputs. *)

FieldNames == {"remarks", "service_env"}
RegFieldNames == FieldNames \cup {"id"}
Users == {"root", "guest"}
Actions == {"change", "view"}
Omitted == "omitted"

\* new_class._meta.model_name and _meta.app_label of the class
model_name == "baseobject"

app_label == "assets"

\* field.verbose_name as the schema supplies it (django: the name, "_" as " ")
verbose_name(name) ==
    CASE name = "service_env" -> "service env"
      [] OTHER -> name

----------------------------------------------------------------------------
(* The class descriptions a behaviour may start from. *)

Range(s) == {s[i] : i \in 1..Len(s)}

Min(a, b) == IF a < b THEN a ELSE b

\* sequences of distinct names, at most MaxFields long
NameSeqs(names) ==
    UNION {{s \in [1..n -> names] : \A i, j \in 1..n : i # j => s[i] # s[j]}
             : n \in 0..Min(MaxFields, Cardinality(names))}

\* every such sequence with every choice of primary_key flags
FieldLists(names) ==
    UNION {{[i \in 1..Len(s) |->
                [name |-> s[i], verbose_name |-> verbose_name(s[i]),
                 primary_key |-> (s[i] \in pk)]] : pk \in SUBSET Range(s)}
             : s \in NameSeqs(names)}

\* no Permissions.blacklist at all, or any set of names
PermissionsChoices(names) ==
    {[configured |-> FALSE, blacklist |-> {}]}
        \cup {[configured |-> TRUE, blacklist |-> b] : b \in SUBSET names}

NoCall ==
    [op |-> "none", field_name |-> "", user |-> "", action |-> "",
     outcome |-> "", error |-> "", asked |-> "", answer |-> FALSE,
     value |-> FALSE, names |-> <<>>, flipped |-> FALSE, fresh |-> FALSE]

StartWith(names) ==
    /\ fields \in FieldLists(names)
    /\ Permissions \in PermissionsChoices(names)
    /\ permissions = <<>>
    /\ declared = "no"
    /\ error = ""
    /\ nreg = 0
    /\ grants = {}
    /\ lastCall = NoCall

Init == StartWith(FieldNames)

InitReg == StartWith(RegFieldNames)

----------------------------------------------------------------------------
(* get_perm_key, models.py:15-34 *)

\* a bug: the action is left out of the code name
get_perm_key_noaction(action, class_name, field_name) ==
    class_name \o "_" \o field_name \o "_field"

get_perm_key(action, class_name, field_name) ==
    action \o "_" \o class_name \o "_" \o field_name \o "_field"

(* PermissionByFieldBase.__new__, models.py:53-71.  The loop reads          *)
(* new_class.Permissions.blacklist at the top of every iteration (line 59), *)
(* so a class without it raises AttributeError on the first field, and a    *)
(* class without fields never reads it.                                     *)

\* a bug: the view permission is appended before the change permission
RECURSIVE register_loop_viewfirst(_, _)
register_loop_viewfirst(i, perms) ==
    IF i > Len(fields) THEN [raised |-> FALSE, permissions |-> perms]
    ELSE IF ~Permissions.configured
         THEN [raised |-> TRUE, permissions |-> perms]
    ELSE LET field == fields[i]
             name == field.name
         IN  IF ~field.primary_key /\ name \notin Permissions.blacklist
             THEN register_loop_viewfirst(i + 1,
                    Append(Append(perms,
                        <<get_perm_key("view", model_name, name),
                          "Can view " \o field.verbose_name \o " field">>),
                        <<get_perm_key("change", model_name, name),
                          "Can change " \o field.verbose_name \o " field">>))
             ELSE register_loop_viewfirst(i + 1, perms)

\* a bug: the primary key is not skipped
RECURSIVE register_loop_withpk(_, _)
register_loop_withpk(i, perms) ==
    IF i > Len(fields) THEN [raised |-> FALSE, permissions |-> perms]
    ELSE IF ~Permissions.configured
         THEN [raised |-> TRUE, permissions |-> perms]
    ELSE LET field == fields[i]
             name == field.name
         IN  IF name \notin Permissions.blacklist
             THEN register_loop_withpk(i + 1,
                    Append(Append(perms,
                        <<get_perm_key("change", model_name, name),
                          "Can change " \o field.verbose_name \o " field">>),
                        <<get_perm_key("view", model_name, name),
                          "Can view " \o field.verbose_name \o " field">>))
             ELSE register_loop_withpk(i + 1, perms)

\* a bug: only the change permission is appended
RECURSIVE register_loop_changeonly(_, _)
register_loop_changeonly(i, perms) ==
    IF i > Len(fields) THEN [raised |-> FALSE, permissions |-> perms]
    ELSE IF ~Permissions.configured
         THEN [raised |-> TRUE, permissions |-> perms]
    ELSE LET field == fields[i]
             name == field.name
         IN  IF ~field.primary_key /\ name \notin Permissions.blacklist
             THEN register_loop_changeonly(i + 1,
                    Append(perms,
                        <<get_perm_key("change", model_name, name),
                          "Can change " \o field.verbose_name \o " field">>))
             ELSE register_loop_changeonly(i + 1, perms)

RECURSIVE register_loop(_, _)
register_loop(i, perms) ==
    IF i > Len(fields) THEN [raised |-> FALSE, permissions |-> perms]
    ELSE IF ~Permissions.configured
         THEN [raised |-> TRUE, permissions |-> perms]
    ELSE LET field == fields[i]
             blacklist == Permissions.blacklist
             name == field.name
         IN  IF ~field.primary_key /\ name \notin blacklist
             THEN register_loop(i + 1,
                    Append(Append(perms,
                        <<get_perm_key("change", model_name, name),
                          "Can change " \o field.verbose_name \o " field">>),
                        <<get_perm_key("view", model_name, name),
                          "Can view " \o field.verbose_name \o " field">>))
             ELSE register_loop(i + 1, perms)

PermissionByFieldBase_new(limit) ==
    /\ declared # "raised"
    /\ nreg < limit
    /\ LET r == register_loop(1, permissions)
       IN  /\ permissions' = r.permissions
           /\ declared' = IF r.raised THEN "raised" ELSE "ok"
           /\ error' = IF r.raised THEN "AttributeError" ELSE ""
           /\ nreg' = IF r.raised THEN nreg ELSE nreg + 1
    /\ UNCHANGED <<fields, Permissions, grants, lastCall>>

----------------------------------------------------------------------------
(* The identity store behind user.has_perm (models.py:103): grants are      *)
(* added and revoked by the rest of the application.                        *)

StoredName(action, field_name) ==
    app_label \o "." \o action \o "_" \o model_name \o "_" \o field_name \o "_field"

GrantNames == {StoredName(a, f) : a \in Actions, f \in FieldNames}

has_perm(user, perm) == <<user, perm>> \in grants

\* lastCall.fresh: the store has not changed since the call was answered.
\* Once the store changes, only the key and the value of a has_access_to_field
\* call are remembered, for comparison with the next call of the same key.
Stale ==
    IF lastCall.op = "has_access_to_field"
    THEN [lastCall EXCEPT !.fresh = FALSE, !.flipped = FALSE,
                          !.asked = "", !.answer = FALSE]
    ELSE NoCall

Grant ==
    /\ Cardinality(grants) < MaxGrants
    /\ \E u \in Users, p \in GrantNames :
          /\ <<u, p>> \notin grants
          /\ grants' = grants \cup {<<u, p>>}
    /\ lastCall' = Stale
    /\ UNCHANGED <<fields, Permissions, permissions, declared, error, nreg>>

Revoke ==
    /\ \E g \in grants : grants' = grants \ {g}
    /\ lastCall' = Stale
    /\ UNCHANGED <<fields, Permissions, permissions, declared, error, nreg>>

----------------------------------------------------------------------------
(* PermByFieldMixin.has_access_to_field, models.py:78-105 *)

perm_name(field_name, action) ==
    app_label \o "." \o get_perm_key(action, model_name, field_name)

\* a bug: a blacklisted field is refused without asking the store
has_access_to_field_blacklist(field_name, user, action) ==
    /\ field_name \notin Permissions.blacklist
    /\ has_perm(user, perm_name(field_name, action))

\* a bug: the answer of the previous call for the same key is reused
has_access_to_field_cached(field_name, user, action) ==
    IF /\ lastCall.op = "has_access_to_field"
       /\ lastCall.field_name = field_name
       /\ lastCall.user = user
       /\ (IF lastCall.action = Omitted THEN "change" ELSE lastCall.action) = action
    THEN lastCall.value
    ELSE has_perm(user, perm_name(field_name, action))

has_access_to_field(field_name, user, action) ==
    has_perm(user, perm_name(field_name, action))

\* action='change' (models.py:78, 107)
action_or_default(action) == IF action = Omitted THEN "change" ELSE action

SameKey(op, field_name, user, action) ==
    /\ lastCall.op = op
    /\ lastCall.outcome = "returned"
    /\ lastCall.field_name = field_name
    /\ lastCall.user = user
    /\ action_or_default(lastCall.action) = action_or_default(action)

HasAccessToField ==
    /\ declared = "ok"
    /\ \E field_name \in FieldNames, user \in Users, action \in Actions \cup {Omitted} :
          LET a == action_or_default(action)
              v == has_access_to_field(field_name, user, a)
          IN  lastCall' =
                [op |-> "has_access_to_field", field_name |-> field_name,
                 user |-> user, action |-> action,
                 outcome |-> "returned", error |-> "",
                 asked |-> perm_name(field_name, a),
                 answer |-> has_perm(user, perm_name(field_name, a)),
                 value |-> v, names |-> <<>>,
                 flipped |-> (SameKey("has_access_to_field", field_name, user, action)
                                /\ lastCall.value # v),
                 fresh |-> TRUE]
    /\ UNCHANGED <<fields, Permissions, permissions, declared, error, nreg, grants>>

(* PermByFieldMixin.allowed_fields, models.py:107-135.  Line 126 reads      *)
(* self.Permissions.blacklist before the loop.                              *)

\* a bug: the primary key is not skipped
RECURSIVE allowed_loop_withpk(_, _, _, _)
allowed_loop_withpk(i, result, user, action) ==
    IF i > Len(fields) THEN result
    ELSE LET field == fields[i]
         IN  IF /\ field.name \notin Permissions.blacklist
                /\ has_access_to_field(field.name, user, action)
             THEN allowed_loop_withpk(i + 1, Append(result, field.name), user, action)
             ELSE allowed_loop_withpk(i + 1, result, user, action)

\* a bug: the store is not asked
RECURSIVE allowed_loop_noaccess(_, _, _, _)
allowed_loop_noaccess(i, result, user, action) ==
    IF i > Len(fields) THEN result
    ELSE LET field == fields[i]
         IN  IF /\ ~field.primary_key
                /\ field.name \notin Permissions.blacklist
             THEN allowed_loop_noaccess(i + 1, Append(result, field.name), user, action)
             ELSE allowed_loop_noaccess(i + 1, result, user, action)

RECURSIVE allowed_loop(_, _, _, _)
allowed_loop(i, result, user, action) ==
    IF i > Len(fields) THEN result
    ELSE LET field == fields[i]
         IN  IF /\ ~field.primary_key
                /\ field.name \notin Permissions.blacklist
                /\ has_access_to_field(field.name, user, action)
             THEN allowed_loop(i + 1, Append(result, field.name), user, action)
             ELSE allowed_loop(i + 1, result, user, action)

allowed_fields(user, action) ==
    IF ~Permissions.configured
    THEN [raised |-> TRUE, result |-> <<>>]
    ELSE [raised |-> FALSE, result |-> allowed_loop(1, <<>>, user, action)]

AllowedFields ==
    /\ declared = "ok"
    /\ \E user \in Users, action \in Actions \cup {Omitted} :
          LET r == allowed_fields(user, action_or_default(action))
          IN  lastCall' =
                [op |-> "allowed_fields", field_name |-> "",
                 user |-> user, action |-> action,
                 outcome |-> IF r.raised THEN "raised" ELSE "returned",
                 error |-> IF r.raised THEN "AttributeError" ELSE "",
                 asked |-> "", answer |-> FALSE,
                 value |-> FALSE, names |-> r.result,
                 flipped |-> (SameKey("allowed_fields", "", user, action)
                                /\ ~r.raised /\ lastCall.names # r.result),
                 fresh |-> TRUE]
    /\ UNCHANGED <<fields, Permissions, permissions, declared, error, nreg, grants>>

----------------------------------------------------------------------------

Next ==
    \/ PermissionByFieldBase_new(1)
    \/ Grant
    \/ Revoke
    \/ HasAccessToField
    \/ AllowedFields

Spec == Init /\ [][Next]_vars

NextReg ==
    \/ PermissionByFieldBase_new(MaxRegistrations)
    \/ HasAccessToField
    \/ AllowedFields

SpecReg == InitReg /\ [][NextReg]_vars

----------------------------------------------------------------------------
(* What the properties below are stated with: the permission code name and  *)
(* the eligibility of a field, written out from their descriptions.         *)

Codename(action, name) == action \o "_" \o model_name \o "_" \o name \o "_field"

Eligible(f) == ~f.primary_key /\ f.name \notin Permissions.blacklist

EligibleFields == SelectSeq(fields, LAMBDA f : Eligible(f))

ExpectedPermissions ==
    [k \in 1..(2 * Len(EligibleFields)) |->
        LET f == EligibleFields[(k + 1) \div 2]
        IN  IF k % 2 = 1
            THEN <<Codename("change", f.name), "Can change " \o f.verbose_name \o " field">>
            ELSE <<Codename("view", f.name), "Can view " \o f.verbose_name \o " field">>]

Names(fs) == {fs[i].name : i \in 1..Len(fs)}

Position(name) == CHOOSE i \in 1..Len(fields) : fields[i].name = name

CallAction == IF lastCall.action = Omitted THEN "change" ELSE lastCall.action

Holds(user, action, name) == <<user, app_label \o "." \o Codename(action, name)>> \in grants

----------------------------------------------------------------------------
(* C1: one registration of a class that has a blacklist, starting from an   *)
(* empty permission list, leaves exactly, for each field in declaration     *)
(* order that is neither a primary key nor blacklisted, the pair            *)
(* ("change_<model>_<name>_field", "Can change <label> field") followed by  *)
(* ("view_<model>_<name>_field", "Can view <label> field").                 *)
C1_RegistrationSequence ==
    (declared = "ok" /\ nreg = 1 /\ Permissions.configured)
        => permissions = ExpectedPermissions

C1_Witness ==
    /\ declared = "ok" /\ nreg = 1
    /\ Len(fields) = 3 /\ Len(permissions) = 4
    /\ \E i \in 1..Len(fields) : fields[i].primary_key
    /\ fields[1].name = "service_env"

(* C4: registration is idempotent: after a second run the permission list   *)
(* is what it was after the first, with no entry twice.                     *)
C4_IdempotentRegistration ==
    (declared = "ok" /\ nreg >= 2 /\ Permissions.configured)
        => /\ permissions = ExpectedPermissions
           /\ \A i, j \in 1..Len(permissions) : i # j => permissions[i] # permissions[j]

(* C5: whatever registrations and queries have run, every code name in the  *)
(* permission list is that of an eligible field of the class: none is the   *)
(* code name of a blacklisted name, none that of a primary key.             *)
C5_OnlyEligibleRegistered ==
    \A k \in 1..Len(permissions) :
        /\ \E a \in Actions, i \in 1..Len(fields) :
              /\ Eligible(fields[i])
              /\ permissions[k][1] = Codename(a, fields[i].name)
        /\ \A a \in Actions, n \in Permissions.blacklist :
              permissions[k][1] # Codename(a, n)
        /\ \A a \in Actions, i \in 1..Len(fields) :
              fields[i].primary_key => permissions[k][1] # Codename(a, fields[i].name)

C5_Witness ==
    /\ nreg = MaxRegistrations
    /\ permissions # <<>>
    /\ lastCall.op = "allowed_fields"
    /\ \E i, j \in 1..Len(fields) :
          /\ fields[i].primary_key /\ fields[i].name \in Permissions.blacklist
          /\ ~fields[j].primary_key /\ fields[j].name \in Permissions.blacklist

(* C6: a class declared without a blacklist fails at its declaration with a *)
(* ConfigurationError, also when it has no fields; nothing is appended to   *)
(* the permission list and no query is what first reports the failure.      *)
C6_FailFastConfigurationError ==
    ~Permissions.configured
        => /\ declared # "ok"
           /\ declared = "raised" => (error = "ConfigurationError" /\ permissions = <<>>)
           /\ lastCall.outcome # "raised"

(* C7: the code names one registration appends are pairwise distinct, and   *)
(* two different (action, field name) pairs never share a code name.        *)
C7_DistinctIdentifiers ==
    /\ \A a1, a2 \in Actions, f1, f2 \in RegFieldNames :
          <<a1, f1>> # <<a2, f2>>
              => get_perm_key(a1, model_name, f1) # get_perm_key(a2, model_name, f2)
    /\ (declared = "ok" /\ nreg = 1)
          => \A i, j \in 1..Len(permissions) :
                i # j => permissions[i][1] # permissions[j][1]

C7_Witness ==
    /\ declared = "ok" /\ nreg = 1
    /\ Len(permissions) = 6

(* C2: allowed_fields returns exactly the names of the fields that are not  *)
(* a primary key, not blacklisted and for which has_access_to_field is      *)
(* true, in the order the class declares them, none of them twice.          *)
C2_AllowedFieldsExact ==
    (lastCall.op = "allowed_fields" /\ lastCall.fresh /\ Permissions.configured)
        => /\ lastCall.outcome = "returned"
           /\ Range(lastCall.names) =
                 {fields[i].name : i \in
                    {j \in 1..Len(fields) :
                        /\ ~fields[j].primary_key
                        /\ fields[j].name \notin Permissions.blacklist
                        /\ has_access_to_field(fields[j].name, lastCall.user, CallAction)}}
           /\ \A i, j \in 1..Len(lastCall.names) :
                 i < j => /\ lastCall.names[i] # lastCall.names[j]
                          /\ Position(lastCall.names[i]) < Position(lastCall.names[j])

C2_Witness ==
    /\ lastCall.op = "allowed_fields"
    /\ lastCall.outcome = "returned"
    /\ lastCall.names = <<"service_env", "remarks">>

(* C3: has_access_to_field asks the store for                               *)
(* "<app_label>.<action>_<model>_<field_name>_field" and returns the        *)
(* store's answer, whether the name is a field of the class, blacklisted    *)
(* or a primary key; an omitted action is "change".                         *)
C3_HasAccessIsStoreAnswer ==
    (lastCall.op = "has_access_to_field" /\ lastCall.fresh)
        => /\ lastCall.outcome = "returned"
           /\ lastCall.asked = app_label \o "." \o Codename(CallAction, lastCall.field_name)
           /\ lastCall.value = lastCall.answer
           /\ lastCall.action = Omitted
                 => lastCall.asked = app_label \o "." \o Codename("change", lastCall.field_name)

C3_Witness ==
    /\ lastCall.op = "has_access_to_field" /\ lastCall.fresh
    /\ lastCall.action = Omitted
    /\ lastCall.value
    /\ lastCall.field_name \in Permissions.blacklist
    /\ lastCall.field_name \notin Names(fields)

(* C8: a denial is a value: when the store does not hold the permission of  *)
(* a name, has_access_to_field returns FALSE and allowed_fields leaves the  *)
(* name out; has_access_to_field never raises, and allowed_fields raises    *)
(* for no combination of grants (only for a class without a blacklist).     *)
C8_DenialIsAValue ==
    /\ lastCall.op = "has_access_to_field" => lastCall.outcome = "returned"
    /\ (lastCall.op = "has_access_to_field" /\ lastCall.fresh
            /\ ~Holds(lastCall.user, CallAction, lastCall.field_name))
          => lastCall.value = FALSE
    /\ lastCall.op = "allowed_fields"
          => /\ lastCall.outcome = "raised" => ~Permissions.configured
             /\ \A n \in FieldNames :
                   ~Holds(lastCall.user, CallAction, n) => n \notin Range(lastCall.names)

C8_Witness ==
    /\ lastCall.op = "allowed_fields"
    /\ lastCall.outcome = "returned"
    /\ Len(lastCall.names) = 1
    /\ Len(EligibleFields) = 2

(* C9: nothing is cached: the result of a call is the one the store's       *)
(* grants at the moment of the call give, so a second call for the same     *)
(* field, user and action reflects a grant added or revoked in between.     *)
C9_NoCachedAnswer ==
    lastCall.fresh
        => /\ lastCall.op = "has_access_to_field"
                => lastCall.value = Holds(lastCall.user, CallAction, lastCall.field_name)
           /\ (lastCall.op = "allowed_fields" /\ lastCall.outcome = "returned")
                => Range(lastCall.names) =
                     {n \in Names(EligibleFields) : Holds(lastCall.user, CallAction, n)}

C9_Witness ==
    /\ lastCall.op = "has_access_to_field"
    /\ lastCall.fresh
    /\ lastCall.flipped
    /\ ~lastCall.value

(* C10: once the class is registered, every name allowed_fields returns for *)
(* change or view has its code name "<action>_<model>_<name>_field" in the  *)
(* class's permission list.                                                 *)
C10_AllowedImpliesRegistered ==
    (declared = "ok" /\ lastCall.op = "allowed_fields" /\ lastCall.outcome = "returned"
        /\ CallAction \in {"change", "view"})
        => \A n \in Range(lastCall.names) :
              \E k \in 1..Len(permissions) : permissions[k][1] = Codename(CallAction, n)

C10_Witness ==
    /\ declared = "ok"
    /\ lastCall.op = "allowed_fields"
    /\ lastCall.action = "view"
    /\ Len(lastCall.names) = 2

====
